---- MODULE Spec2Model ----
(***************************************************************************)
(* A model of zvt/trader/trader.py: LimitSelectorsComparator, TargetsSlot  *)
(* and the tick loop of Trader (construction, listener registration,       *)
(* consensus over the levels, signal dispatch, per-level refresh, hooks).   *)
(*                                                                         *)
(* Instruments, scores, levels and timestamps are small naturals.  A       *)
(* DataFrame of targets is a sequence of [id, score] rows.  A bigger level  *)
(* number is a coarser TradingLevel.                                       *)
(***************************************************************************)
EXTENDS Integers, Sequences, FiniteSets

VARIABLES
    \* ---- Trader ----
    pc,          \* position of the program: construction, loop, steps of a tick
    args,        \* the arguments of the call of Trader(...), while it runs
    config,      \* self.real_time and whether self.trading_level is LEVEL_1DAY
    selectors,   \* self.selectors: the level of each selector, in list order
    listeners,   \* self.trading_signal_listeners
    slot,        \* self.targets_slot.level_map_targets
    positions,   \* the account's instruments with available_long > 0
    handled,     \* handled_timestamp (0 is None)
    timestamp,   \* the loop variable of run (0 before the first tick)
    cal,         \* the calendar predicates' values at `timestamp`
    pacing,      \* what the pacing block of this tick did
    snap,        \* locals of handle_targets_slot / send_trading_signals
    cur,         \* the TradingSignal being dispatched and the listener index
    emitted,     \* TradingSignals constructed in the tick in progress, in order
    delivered,   \* on_trading_signal calls that returned in it, in order
    hooks,       \* the account hooks that returned in it, in order
    lvl,         \* index into trading_level_asc of the refresh loop
    decided,     \* `selected` of the refresh loop in this tick, by level refreshed
    err,         \* the exception that left run, if any
    \* ---- LimitSelectorsComparator on its own ----
    cmp,
    \* ---- TargetsSlot on its own ----
    tslot,       \* level_map_targets of a TargetsSlot
    twrites      \* the input_targets calls made on it, in order

traderVars == <<pc, args, config, selectors, listeners, slot, positions, handled,
                timestamp, cal, pacing, snap, cur, emitted, delivered, hooks,
                lvl, decided, err>>
vars == <<traderVars, cmp, tslot, twrites>>

----------------------------------------------------------------------------
\* Bounds of the model.

MaxTicks == 2          \* timestamps iterate_timestamps yields at most
MaxTargets == 2        \* rows of one selector's get_targets, comparator runs
MaxLimit == 2          \* the comparator's limit, comparator runs
MaxWrites == 3         \* input_targets calls on the lone TargetsSlot
Precision == 4         \* bits of the significand of a float (53 in Python)

\* LimitSelectorsComparator.__init__: limit=10, which is what Trader uses.
DefaultLimit == 10

Ids == {1, 2}          \* instruments of the trader runs
CmpIds == {1, 2, 3}    \* instruments of the comparator runs
Scores == {1, 2, 3}    \* scores
Levels == {1, 2}       \* TradingLevel values, 2 the coarser

\* Python's optional values: None is the empty tuple, a value x is <<x>>.
None == << >>
Some(x) == <<x>>

----------------------------------------------------------------------------
\* DataFrames of targets.

Rows(ids) == [id : ids, score : Scores]

RECURSIVE SeqsUpTo(_, _)
SeqsUpTo(S, n) ==
    IF n = 0 THEN {<< >>}
    ELSE LET shorter == SeqsUpTo(S, n - 1)
         IN  shorter \cup {Append(s, x) : s \in {t \in shorter : Len(t) = n - 1}, x \in S}

\* Order of sort_values(by=['score', 'security_id']).
RowLeq(a, b) == a.score < b.score \/ (a.score = b.score /\ a.id <= b.id)

RECURSIVE InsertRow(_, _)
InsertRow(r, df) ==
    IF df = << >> THEN <<r>>
    ELSE IF RowLeq(r, Head(df)) THEN <<r>> \o df
    ELSE <<Head(df)>> \o InsertRow(r, Tail(df))

RECURSIVE sort_values(_)
sort_values(df) ==
    IF df = << >> THEN << >> ELSE InsertRow(Head(df), sort_values(Tail(df)))

\* df.iloc[list(range(n)), :]
iloc(df, n) == SubSeq(df, 1, n)

\* The body of the loop of make_decision for one matching selector's frame.
LimitFrame(df, limit) ==
    IF df # << >>
    THEN LET sorted == sort_values(df)
         IN  IF Len(sorted) > limit THEN iloc(sorted, limit) ELSE sorted
    ELSE df

\* LimitSelectorsComparator.make_decision: sels[i] is the level of selector i,
\* outs[i] what its get_targets(timestamp) returns.
RECURSIVE make_decision_from(_, _, _, _, _)
make_decision_from(i, sels, outs, limit, level) ==
    IF i > Len(sels) THEN << >>
    ELSE (IF sels[i] = level THEN LimitFrame(outs[i], limit) ELSE << >>)
         \o make_decision_from(i + 1, sels, outs, limit, level)

make_decision(sels, outs, limit, level) ==
    make_decision_from(1, sels, outs, limit, level)

\* df['security_id'].to_list()
IdSet(df) == {df[i].id : i \in 1..Len(df)}

----------------------------------------------------------------------------
\* TargetsSlot.  level_map_targets is a dict: a function on the written keys.

EmptySlot == [l \in {} |-> {}]

\* TargetsSlot.get_targets: dict.get, None for a level never written.
get_targets(m, level) ==
    IF level \in DOMAIN m THEN Some(m[level]) ELSE None

\* An input_targets that merges the new targets into the old ones.
input_targets_merge(m, level, targets) ==
    [l \in (DOMAIN m) \cup {level} |->
        IF l # level THEN m[l]
        ELSE IF level \in DOMAIN m THEN m[level] \cup targets ELSE targets]

\* TargetsSlot.input_targets: level_map_targets[level.value] = targets
input_targets(m, level, targets) ==
    [l \in (DOMAIN m) \cup {level} |-> IF l = level THEN targets ELSE m[l]]

----------------------------------------------------------------------------
\* Python floats: binary floating point, round to nearest, ties to even.  A
\* float is m * 2^e with m = 0, or m of exactly Precision bits.
RECURSIVE Pow2(_)
Pow2(n) == IF n = 0 THEN 1 ELSE 2 * Pow2(n - 1)

FloatZero == [m |-> 0, e |-> 0]

\* n / d to the nearest integer, ties to the even one.
RoundHalfEven(n, d) ==
    LET q == n \div d
        r == n % d
    IN  IF 2 * r < d THEN q
        ELSE IF 2 * r > d THEN q + 1
        ELSE q + (q % 2)

\* The float nearest to (n / d) * 2^e, for n >= 0 and d > 0.
RECURSIVE RoundFloat(_, _, _)
RoundFloat(n, d, e) ==
    IF n = 0 THEN FloatZero
    ELSE IF n >= d * Pow2(Precision) THEN RoundFloat(n, 2 * d, e + 1)
    ELSE IF n < d * Pow2(Precision - 1) THEN RoundFloat(2 * n, d, e - 1)
    ELSE LET m == RoundHalfEven(n, d)
         IN  IF m = Pow2(Precision) THEN [m |-> Pow2(Precision - 1), e |-> e + 1]
             ELSE [m |-> m, e |-> e]

\* float(n) of an integer n >= 0.
ToFloat(n) == RoundFloat(n, 1, 0)

\* a / b of two floats, b not zero.
FloatDiv(a, b) == RoundFloat(a.m, b.m, a.e - b.e)

\* a * b of two floats.
FloatMul(a, b) == RoundFloat(a.m * b.m, 1, a.e + b.e)

----------------------------------------------------------------------------
\* Trader: construction and listener registration.

Account == "account"                  \* self.account_service
Listeners == {Account, "listener"}     \* objects that may be registered
CashValues == {0, 12}                  \* account['cash'] of a snapshot
WaitSeconds == {0, 10, 11}             \* results of count_from_timestamp
PacingThreshold == 10                  \* waiting_seconds > 10

\* Arguments of the constructor: whether start_timestamp and end_timestamp are
\* given, real_time, whether end_timestamp < now_pd_timestamp(), and whether
\* trading_level is LEVEL_1DAY.
Configs ==
    [start : BOOLEAN, end : BOOLEAN, real_time : BOOLEAN, end_past : BOOLEAN,
     day : BOOLEAN]

\* A constructor without the real_time check.
ConfigAcceptedTimestampsOnly(c) == c.start /\ c.end

\* The two checks of __init__: both timestamps given, and in real_time mode
\* end_timestamp >= now_pd_timestamp().
ConfigAccepted(c) ==
    /\ c.start /\ c.end
    /\ c.real_time => ~c.end_past

NoSnap == [selected |-> None, holdings |-> {}, cash |-> 0, order_money |-> None,
           longed |-> {}, shorted |-> {}, toOpen |-> {}, toClose |-> {}]
NoCur == [sig |-> None, li |-> 0]
NoCal == [finished |-> EmptySlot, open |-> None, close |-> None]
NoPacing == [waiting |-> None, slept |-> FloatZero, moved |-> {}]
NoConfig == [real_time |-> FALSE, day |-> FALSE]

\* Nothing is constructed yet; `a` is the call of Trader(...) about to be made.
TraderStart(a) ==
    /\ pc = "new"
    /\ args = a
    /\ config = NoConfig
    /\ selectors = << >>
    /\ listeners = << >>
    /\ slot = EmptySlot
    /\ positions = {}
    /\ handled = 0
    /\ timestamp = 0
    /\ cal = NoCal
    /\ pacing = NoPacing
    /\ snap = NoSnap
    /\ cur = NoCur
    /\ emitted = << >>
    /\ delivered = << >>
    /\ hooks = << >>
    /\ lvl = 0
    /\ decided = EmptySlot
    /\ err = None

\* A registration that does not look for the listener in the list.
AddListenerAgain(ls, l) == Append(ls, l)

\* add_trading_signal_listener on a list of listeners.
AddListener(ls, l) ==
    IF \E i \in 1..Len(ls) : ls[i] = l THEN ls ELSE Append(ls, l)

\* remove_trading_signal_listener: list.remove drops the first occurrence.
RECURSIVE RemoveListener(_, _)
RemoveListener(ls, l) ==
    IF ls = << >> THEN << >>
    ELSE IF Head(ls) = l THEN Tail(ls)
    ELSE <<Head(ls)>> \o RemoveListener(Tail(ls), l)

\* A handler that logs the exception and carries on with the next step.
RaiseSwallowed(who) ==
    /\ err' = Some([who |-> who, at |-> pc, ts |-> timestamp])
    /\ pc' = IF pc = "open_hook" THEN "consensus"
             ELSE IF pc = "consensus" THEN "send"
             ELSE IF pc = "refresh" /\ lvl > Cardinality({selectors[i] : i \in 1..Len(selectors)})
                  THEN "tick_done"
             ELSE pc

\* An exception nobody catches: run has no try block, so it leaves run and the
\* program stops.
Raise(who) ==
    /\ pc' = "aborted"
    /\ err' = Some([who |-> who, at |-> pc, ts |-> timestamp])

\* Trader.__init__.  `sels` is what init_selectors builds, `held` the positions
\* the account starts with.
Construct(sels, held) ==
    /\ pc = "new"
    /\ IF ConfigAccepted(args[1])
       THEN /\ pc' = "ready"
            /\ args' = None
            /\ config' = [real_time |-> args[1].real_time, day |-> args[1].day]
            /\ listeners' = AddListener(<< >>, Account)
            /\ selectors' = sels
            /\ positions' = held
            /\ slot' = EmptySlot
       ELSE /\ pc' = "ctor_failed"
            /\ UNCHANGED <<args, config, listeners, selectors, positions, slot>>
    /\ UNCHANGED <<handled, timestamp, cal, pacing, snap, cur, emitted,
                   delivered, hooks, lvl, err, decided,
                   cmp, tslot, twrites>>

add_trading_signal_listener(l) ==
    /\ pc = "ready"
    /\ listeners' = AddListener(listeners, l)
    /\ UNCHANGED <<pc, args, config, selectors, slot, positions, handled, timestamp,
                   cal, pacing, snap, cur, emitted, delivered, hooks, lvl,
                   err, decided,
                   cmp, tslot, twrites>>

\* The callers modelled here never unregister the account service.
remove_trading_signal_listener(l) ==
    /\ pc = "ready"
    /\ l # Account
    /\ \E i \in 1..Len(listeners) : listeners[i] = l
    /\ listeners' = RemoveListener(listeners, l)
    /\ UNCHANGED <<pc, args, config, selectors, slot, positions, handled, timestamp,
                   cal, pacing, snap, cur, emitted, delivered, hooks, lvl,
                   err, decided,
                   cmp, tslot, twrites>>

----------------------------------------------------------------------------
\* Trader: the levels of the selectors and the consensus over them.

LevelSet(sels) == {sels[i] : i \in 1..Len(sels)}

RECURSIVE SortedSeq(_)
SortedSeq(S) ==
    IF S = {} THEN << >>
    ELSE LET m == CHOOSE x \in S : \A y \in S : x <= y
         IN  <<m>> \o SortedSeq(S \ {m})

Reverse(s) == [i \in 1..Len(s) |-> s[Len(s) + 1 - i]]

trading_level_asc(sels) == SortedSeq(LevelSet(sels))

\* A trading_level_desc that was never reversed.
trading_level_unreversed(sels) == trading_level_asc(sels)

trading_level_desc(sels) == Reverse(trading_level_asc(sels))

\* Python truth of an optional set: None and the empty collection are false.
Truthy(opt) == opt # None /\ opt[1] # {}

\* One round of the loop of handle_targets_slot.
ConsensusStep(selected, got) ==
    LET targets == IF Truthy(got) THEN got[1] ELSE {}
    IN  IF ~Truthy(selected) THEN Some(targets)
        ELSE Some(selected[1] \cap targets)

\* The loop of handle_targets_slot over trading_level_desc, from `selected`.
RECURSIVE ConsensusFrom(_, _, _, _)
ConsensusFrom(i, desc, m, selected) ==
    IF i > Len(desc) THEN selected
    ELSE ConsensusFrom(i + 1, desc, m,
                       ConsensusStep(selected, get_targets(m, desc[i])))

\* What handle_targets_slot passes to send_trading_signals as `selected`.
Consensus(sels, m) == ConsensusFrom(1, trading_level_desc(sels), m, None)

\* A longed that forgets the current holdings.
LongedAll(selected, holdings) ==
    IF Truthy(selected) THEN selected[1] ELSE {}

\* send_trading_signals: the two sets signals are built for.
Longed(selected, holdings) ==
    IF Truthy(selected) THEN selected[1] \ holdings ELSE {}

\* A shorted that closes nothing when there is no consensus.
ShortedOfConsensus(selected, holdings) ==
    IF Truthy(selected) THEN holdings \ selected[1] ELSE {}

Shorted(selected, holdings) ==
    IF Truthy(selected) THEN holdings \ selected[1] ELSE holdings

OpenLong == "trading_signal_open_long"
CloseLong == "trading_signal_close_long"

\* An order_money that forgets position_pct: all the cash for each instrument.
order_money_all(cash, n) == ToFloat(cash)

\* position_pct = 1.0 / len(longed); order_money = account['cash'] * position_pct
order_money(cash, n) ==
    FloatMul(ToFloat(cash), FloatDiv(ToFloat(1), ToFloat(n)))

\* An OpenLong signal stamped with the timestamp handled before.
OpenSignalStale(id, ts, money) ==
    [security_id |-> id, the_timestamp |-> handled, trading_signal_type |-> OpenLong,
     order_money |-> money, position_pct |-> None]

OpenSignal(id, ts, money) ==
    [security_id |-> id, the_timestamp |-> ts, trading_signal_type |-> OpenLong,
     order_money |-> money, position_pct |-> None]

CloseSignal(id, ts) ==
    [security_id |-> id, the_timestamp |-> ts, trading_signal_type |-> CloseLong,
     order_money |-> None, position_pct |-> Some(1)]

----------------------------------------------------------------------------
\* Trader.run.

\* What a selector's get_targets returns in a trader run: no row or one row.
RunOutputs == {<< >>} \cup {<<r>> : r \in Rows(Ids)}

\* The frames the selectors can return when asked for `level`: only selectors
\* of that level are asked.
OutputsFor(sels, level) ==
    {outs \in [1..Len(sels) -> RunOutputs] :
        \A i \in 1..Len(sels) : sels[i] # level => outs[i] = << >>}

\* An iterator that yields the timestamp it yielded before.
SameTick(t) == IF t = 0 THEN 1 ELSE t

\* iterate_timestamps yields the timestamps of the range one after the other;
\* they are numbered 1, 2, ... here.
NextTick(t) == t + 1

\* run is entered: handled_timestamp = None.
run ==
    /\ pc = "ready"
    /\ pc' = "loop"
    /\ handled' = 0
    /\ UNCHANGED <<args, config, selectors, listeners, slot, positions, timestamp, cal,
                   pacing, snap, cur, emitted, delivered, hooks, lvl, err,
                   decided, cmp, tslot, twrites>>

\* A pacing block that also sleeps when the wait is just the threshold.
PacesFromThreshold(wait) ==
    config.real_time /\ handled # 0 /\ wait # 0 /\ wait >= PacingThreshold

\* The pacing block at the head of the loop body sleeps and moves selectors on.
Paces(wait) ==
    config.real_time /\ handled # 0 /\ wait # 0 /\ wait > PacingThreshold

\* iterate_timestamps yields the next timestamp and the pacing block runs.  The
\* calendar predicates are functions of the timestamp: cal keeps the values
\* they have returned for this one.  `fin` are the levels for which
\* is_in_finished_timestamps holds, among those the pacing block asks about.
next_timestamp(fin, wait) ==
    /\ pc = "loop"
    /\ timestamp < MaxTicks
    /\ ~(config.real_time /\ handled # 0) => wait = 0
    /\ fin \subseteq LevelSet(selectors)
    /\ ~Paces(wait) => fin = {}
    /\ timestamp' = NextTick(timestamp)
    /\ pc' = "open_hook"
    /\ IF Paces(wait)
       THEN /\ cal' = [NoCal EXCEPT !.finished =
                                  [l \in LevelSet(selectors) |-> l \in fin]]
            /\ pacing' = [waiting |-> Some(wait),
                          slept |-> FloatDiv(ToFloat(wait), ToFloat(2)),
                          moved |-> {i \in 1..Len(selectors) : selectors[i] \in fin}]
       ELSE /\ cal' = NoCal
            /\ pacing' = [NoPacing EXCEPT !.waiting =
                              IF config.real_time /\ handled # 0 THEN Some(wait)
                              ELSE None]
    /\ UNCHANGED <<args, config, selectors, listeners, slot, positions, handled,
                   snap, cur, emitted, delivered, hooks, lvl, err,
                   decided, cmp, tslot, twrites>>

\* iterate_timestamps is exhausted: on_finish.
on_finish ==
    /\ pc = "loop"
    /\ pc' = "finished"
    /\ UNCHANGED <<args, config, selectors, listeners, slot, positions, handled,
                   timestamp, cal, pacing, snap, cur, emitted, delivered, hooks,
                   lvl, err, decided,
                   cmp, tslot, twrites>>

\* A hook called on every tick, whatever the calendar says.
HookDueAlways(day, at) == TRUE

\* The condition of a hook: the trader's level is LEVEL_1DAY, or the calendar
\* predicate (is_open_time, is_close_time) holds at the timestamp.
HookDue(day, at) == day \/ at

\* self.account_service.on_trading_open(timestamp), when its condition holds.
on_trading_open(op) ==
    /\ pc = "open_hook"
    /\ config.day => ~op
    /\ cal' = IF config.day THEN cal ELSE [cal EXCEPT !.open = Some(op)]
    /\ IF HookDue(config.day, op)
       THEN \/ /\ hooks' = Append(hooks, "on_trading_open")
               /\ pc' = "consensus"
               /\ err' = err
            \/ /\ Raise(Account)
               /\ hooks' = hooks
       ELSE /\ pc' = "consensus"
            /\ UNCHANGED <<hooks, err>>
    /\ UNCHANGED <<args, config, selectors, listeners, slot, positions, handled,
                   timestamp, pacing, snap, cur, emitted, delivered, lvl,
                   decided, cmp, tslot, twrites>>

\* handle_targets_slot and the head of send_trading_signals: the consensus, the
\* account snapshot, longed and shorted.
handle_targets_slot(cash) ==
    /\ pc = "consensus"
    /\ \/ /\ Raise(Account)
          /\ snap' = snap
       \/ LET selected == Consensus(selectors, slot)
              longed == Longed(selected, positions)
              shorted == Shorted(selected, positions)
          IN  /\ longed = {} => cash = 0      \* account['cash'] is not read
              /\ snap' = [selected |-> selected, holdings |-> positions,
                          cash |-> cash,
                          order_money |->
                              IF longed = {} THEN None
                              ELSE Some(order_money(cash, Cardinality(longed))),
                          longed |-> longed, shorted |-> shorted,
                          toOpen |-> longed, toClose |-> shorted]
              /\ pc' = "send"
              /\ err' = err
    /\ UNCHANGED <<args, config, selectors, listeners, slot, positions, handled,
                   timestamp, cal, pacing, cur, emitted, delivered, hooks, lvl,
                   decided, cmp, tslot, twrites>>

\* The next TradingSignal is constructed: open signals first, then close.
Dispatch(sig) ==
    /\ emitted' = Append(emitted, sig)
    /\ cur' = IF listeners = << >> THEN NoCur ELSE [sig |-> Some(sig), li |-> 1]

\* A dispatch that builds the close signals before the open signals.
ClosesFirst(toOpen, toClose) == toOpen # {} /\ toClose = {}

\* The loop over longed comes before the loop over shorted.
OpensFirst(toOpen, toClose) == toOpen # {}

next_signal ==
    /\ pc = "send"
    /\ cur.sig = None
    /\ IF OpensFirst(snap.toOpen, snap.toClose)
       THEN \E id \in snap.toOpen :
               /\ Dispatch(OpenSignal(id, timestamp, snap.order_money))
               /\ snap' = [snap EXCEPT !.toOpen = @ \ {id}]
       ELSE \E id \in snap.toClose :
               /\ Dispatch(CloseSignal(id, timestamp))
               /\ snap' = [snap EXCEPT !.toClose = @ \ {id}]
    /\ UNCHANGED <<pc, args, config, selectors, listeners, slot, positions, handled,
                   timestamp, cal, pacing, delivered, hooks, lvl, err,
                   decided, cmp, tslot, twrites>>

\* What the account may make of a signal it accepted.
Filled(held, sig, fill) ==
    IF ~fill THEN held
    ELSE IF sig.trading_signal_type = OpenLong THEN held \cup {sig.security_id}
    ELSE held \ {sig.security_id}

\* listener.on_trading_signal(trading_signal) for the next listener of the list.
on_trading_signal(fill) ==
    /\ pc = "send"
    /\ cur.sig # None
    /\ LET l == listeners[cur.li]
           sig == cur.sig[1]
       IN  /\ l # Account => ~fill
           /\ \/ /\ delivered' = Append(delivered, [listener |-> l, signal |-> sig])
                 /\ positions' = Filled(positions, sig, fill)
                 /\ cur' = IF cur.li = Len(listeners) THEN NoCur
                           ELSE [cur EXCEPT !.li = @ + 1]
                 /\ UNCHANGED <<pc, err>>
              \/ /\ ~fill
                 /\ Raise(l)
                 /\ UNCHANGED <<delivered, positions, cur>>
    /\ UNCHANGED <<args, config, selectors, listeners, slot, handled, timestamp, cal,
                   pacing, snap, emitted, hooks, lvl, decided,
                   cmp, tslot, twrites>>

\* send_trading_signals returns.
signals_sent ==
    /\ pc = "send"
    /\ cur.sig = None
    /\ snap.toOpen = {} /\ snap.toClose = {}
    /\ pc' = "refresh"
    /\ lvl' = 1
    /\ snap' = NoSnap
    /\ UNCHANGED <<args, config, selectors, listeners, slot, positions, handled,
                   timestamp, cal, pacing, cur, emitted, delivered, hooks,
                   err, decided,
                   cmp, tslot, twrites>>

\* The answers of is_in_finished_timestamps for this timestamp, with the one
\* for `level` added.
Answered(known, level, fin) ==
    [l \in (DOMAIN known) \cup {level} |-> IF l = level THEN fin ELSE known[l]]

\* A refresh that does not look at the calendar.
ShouldRefreshAlways(fin) == TRUE

\* The test of the round: is_in_finished_timestamps(timestamp, level) is `fin`.
ShouldRefresh(fin) == fin

\* One round of `for level in self.trading_level_asc`.
refresh_level(fin) ==
    /\ pc = "refresh"
    /\ lvl <= Len(trading_level_asc(selectors))
    /\ LET level == trading_level_asc(selectors)[lvl]
       IN
       /\ level \in DOMAIN cal.finished => fin = cal.finished[level]
       /\ cal' = [cal EXCEPT !.finished = Answered(@, level, fin)]
       /\ IF ShouldRefresh(fin)
           THEN \/ \E outs \in OutputsFor(selectors, level) :
                     LET df == make_decision(selectors, outs, DefaultLimit, level)
                     IN  /\ slot' = input_targets(slot, level, IdSet(df))
                         /\ decided' = [l \in (DOMAIN decided) \cup {level} |->
                                            IF l = level THEN IdSet(df) ELSE decided[l]]
                         /\ lvl' = lvl + 1
                         /\ UNCHANGED <<pc, err>>
                \/ /\ Raise("selector")
                   /\ UNCHANGED <<slot, lvl, decided>>
           ELSE /\ lvl' = lvl + 1
                /\ UNCHANGED <<slot, pc, err, decided>>
    /\ UNCHANGED <<args, config, selectors, listeners, positions, handled, timestamp,
                   pacing, snap, cur, emitted, delivered, hooks,
                   cmp, tslot, twrites>>

\* handled_timestamp = timestamp, then on_trading_close when its condition holds.
on_trading_close(cl) ==
    /\ pc = "refresh"
    /\ lvl > Len(trading_level_asc(selectors))
    /\ handled' = timestamp
    /\ config.day => ~cl
    /\ cal' = IF config.day THEN cal ELSE [cal EXCEPT !.close = Some(cl)]
    /\ IF HookDue(config.day, cl)
       THEN \/ /\ hooks' = Append(hooks, "on_trading_close")
               /\ pc' = "tick_done"
               /\ err' = err
            \/ /\ Raise(Account)
               /\ hooks' = hooks
       ELSE /\ pc' = "tick_done"
            /\ UNCHANGED <<hooks, err>>
    /\ UNCHANGED <<args, config, selectors, listeners, slot, positions, timestamp,
                   pacing, snap, cur, emitted, delivered, lvl, decided,
                   cmp, tslot, twrites>>

\* The loop body is over and the for loop goes back to its head: nothing is
\* left of the tick but handled_timestamp and the slot.
EndTick ==
    /\ pc = "tick_done"
    /\ pc' = "loop"
    /\ cal' = NoCal
    /\ pacing' = NoPacing
    /\ emitted' = << >>
    /\ delivered' = << >>
    /\ hooks' = << >>
    /\ lvl' = 0
    /\ decided' = EmptySlot
    /\ UNCHANGED <<args, config, selectors, listeners, slot, positions, handled,
                   timestamp, snap, cur, err, cmp, tslot, twrites>>

InitialHoldings == SUBSET Ids
SelectorLists == [{1, 2} -> Levels]     \* two selectors, each of some level

NoCmp == [sels |-> << >>, outs |-> << >>, limit |-> 1, level |-> 1, result |-> None]

Init ==
    /\ \E c \in Configs : TraderStart(Some(c))
    /\ cmp = NoCmp
    /\ tslot = EmptySlot
    /\ twrites = << >>

Next ==
    \/ \E sels \in SelectorLists, held \in InitialHoldings : Construct(sels, held)
    \/ \E l \in Listeners : add_trading_signal_listener(l)
    \/ \E l \in Listeners : remove_trading_signal_listener(l)
    \/ run
    \/ \E fin \in SUBSET Levels, wait \in WaitSeconds : next_timestamp(fin, wait)
    \/ on_finish
    \/ \E op \in BOOLEAN : on_trading_open(op)
    \/ \E cash \in CashValues : handle_targets_slot(cash)
    \/ next_signal
    \/ \E fill \in BOOLEAN : on_trading_signal(fill)
    \/ signals_sent
    \/ \E fin \in BOOLEAN : refresh_level(fin)
    \/ \E cl \in BOOLEAN : on_trading_close(cl)
    \/ EndTick

Spec == Init /\ [][Next]_vars

\* The steps of the loop of run.  run is one thread of straight-line code: once
\* entered, its next step is taken as soon as the collaborator it called returns.
LoopStep ==
    \/ \E fin \in SUBSET Levels, wait \in WaitSeconds : next_timestamp(fin, wait)
    \/ on_finish
    \/ \E op \in BOOLEAN : on_trading_open(op)
    \/ \E cash \in CashValues : handle_targets_slot(cash)
    \/ next_signal
    \/ \E fill \in BOOLEAN : on_trading_signal(fill)
    \/ signals_sent
    \/ \E fin \in BOOLEAN : refresh_level(fin)
    \/ \E cl \in BOOLEAN : on_trading_close(cl)
    \/ EndTick

\* run on its own: a trader as __init__ leaves it, whose caller registers no
\* further listener and calls run.
InitRun ==
    /\ pc = "ready"
    /\ args = None
    /\ config \in [real_time : BOOLEAN, day : BOOLEAN]
    /\ selectors \in SelectorLists
    /\ listeners = AddListener(<< >>, Account)
    /\ slot = EmptySlot
    /\ positions \in InitialHoldings
    /\ handled = 0
    /\ timestamp = 0
    /\ cal = NoCal
    /\ pacing = NoPacing
    /\ snap = NoSnap
    /\ cur = NoCur
    /\ emitted = << >>
    /\ delivered = << >>
    /\ hooks = << >>
    /\ lvl = 0
    /\ decided = EmptySlot
    /\ err = None
    /\ cmp = NoCmp
    /\ tslot = EmptySlot
    /\ twrites = << >>

NextRun == run \/ LoopStep

SpecRun == InitRun /\ [][NextRun]_vars /\ WF_vars(LoopStep)

----------------------------------------------------------------------------
\* LimitSelectorsComparator on its own: any one or two selectors, any frames of
\* at most MaxTargets rows, any limit in 1..MaxLimit, any requested level.

CmpOutputs == SeqsUpTo(Rows(CmpIds), MaxTargets)

CmpInputs ==
    UNION {[sels : [1..n -> Levels], outs : [1..n -> CmpOutputs],
            limit : 1..MaxLimit, level : Levels, result : {None}] : n \in {1, 2}}

InitComparator ==
    /\ TraderStart(None)
    /\ cmp \in CmpInputs
    /\ tslot = EmptySlot
    /\ twrites = << >>

\* selectors_comparator.make_decision(timestamp, trading_level)
call_make_decision ==
    /\ cmp.result = None
    /\ cmp' = [cmp EXCEPT !.result =
                  Some(make_decision(cmp.sels, cmp.outs, cmp.limit, cmp.level))]
    /\ UNCHANGED <<traderVars, tslot, twrites>>

NextComparator == call_make_decision

SpecComparator == InitComparator /\ [][NextComparator]_vars

----------------------------------------------------------------------------
\* TargetsSlot on its own: any input_targets calls, at most MaxWrites of them.

InitSlot ==
    /\ TraderStart(None)
    /\ cmp = NoCmp
    /\ tslot = EmptySlot
    /\ twrites = << >>

\* targets_slot.input_targets(level, targets)
call_input_targets(level, targets) ==
    /\ Len(twrites) < MaxWrites
    /\ tslot' = input_targets(tslot, level, targets)
    /\ twrites' = Append(twrites, [level |-> level, targets |-> targets])
    /\ UNCHANGED <<traderVars, cmp>>

NextSlot == \E level \in Levels, targets \in SUBSET Ids : call_input_targets(level, targets)

SpecSlot == InitSlot /\ [][NextSlot]_vars

----------------------------------------------------------------------------
\* handle_targets_slot on its own, in a tick of a trader with three instruments:
\* any cached set of the one level, any holdings, any cash of the snapshot.

SendIds == {1, 2, 3}
SendCash == {0, 10, 12}

InitSend ==
    /\ pc = "consensus"
    /\ args = None
    /\ config = [real_time |-> FALSE, day |-> TRUE]
    /\ selectors = <<1, 1>>
    /\ listeners = <<Account>>
    /\ \E targets \in SUBSET SendIds : slot = input_targets(EmptySlot, 1, targets)
    /\ positions \in SUBSET SendIds
    /\ handled = 1
    /\ timestamp = 2
    /\ cal = NoCal
    /\ pacing = NoPacing
    /\ snap = NoSnap
    /\ cur = NoCur
    /\ emitted = << >>
    /\ delivered = << >>
    /\ hooks = <<"on_trading_open">>
    /\ lvl = 0
    /\ decided = EmptySlot
    /\ err = None
    /\ cmp = NoCmp
    /\ tslot = EmptySlot
    /\ twrites = << >>

NextSend ==
    \/ \E cash \in SendCash : handle_targets_slot(cash)
    \/ next_signal
    \/ \E fill \in BOOLEAN : on_trading_signal(fill)
    \/ signals_sent

SpecSend == InitSend /\ [][NextSend]_vars

\* The same tick, from any slot the refresh loop can have left: a set, or
\* nothing, for each level of the selectors.
SlotsOf(Ls) == UNION {[D -> SUBSET SendIds] : D \in SUBSET Ls}

InitConsensus ==
    /\ pc = "consensus"
    /\ args = None
    /\ config = [real_time |-> FALSE, day |-> TRUE]
    /\ selectors \in SelectorLists
    /\ listeners = <<Account>>
    /\ slot \in SlotsOf(LevelSet(selectors))
    /\ positions \in SUBSET SendIds
    /\ handled = 1
    /\ timestamp = 2
    /\ cal = NoCal
    /\ pacing = NoPacing
    /\ snap = NoSnap
    /\ cur = NoCur
    /\ emitted = << >>
    /\ delivered = << >>
    /\ hooks = <<"on_trading_open">>
    /\ lvl = 0
    /\ decided = EmptySlot
    /\ err = None
    /\ cmp = NoCmp
    /\ tslot = EmptySlot
    /\ twrites = << >>

SpecConsensus == InitConsensus /\ [][NextSend]_vars

----------------------------------------------------------------------------
\* Properties of LimitSelectorsComparator (under SpecComparator).

NoDuplicateIds(df) ==
    \A i, j \in 1..Len(df) : i # j => df[i].id # df[j].id

\* C1: the result of make_decision has at most `limit` rows and no instrument
\* id twice.  The code limits each selector's frame, not the result, so two
\* selectors of the requested level break it.
C1_AtMostLimitNoDuplicates ==
    cmp.result # None =>
        /\ Len(cmp.result[1]) <= cmp.limit
        /\ NoDuplicateIds(cmp.result[1])

\* The frames of the selectors of level `level`, one after the other.
RECURSIVE ConcatMatching(_, _, _, _)
ConcatMatching(i, sels, outs, level) ==
    IF i > Len(sels) THEN << >>
    ELSE (IF sels[i] = level THEN outs[i] ELSE << >>)
         \o ConcatMatching(i + 1, sels, outs, level)

FirstRows(df, n) == IF Len(df) > n THEN SubSeq(df, 1, n) ELSE df

\* C10: make_decision returns the first `limit` rows of the concatenation of
\* the matching selectors' frames sorted by (score, id).  The code sorts and
\* cuts each frame on its own and concatenates the pieces.
C10_FirstLimitOfSortedConcatenation ==
    cmp.result # None =>
        cmp.result[1] =
            FirstRows(sort_values(ConcatMatching(1, cmp.sels, cmp.outs, cmp.level)),
                      cmp.limit)

----------------------------------------------------------------------------
\* Properties of TargetsSlot (under SpecSlot).

\* The targets of the last input_targets call for `level` in `ws`, if any.
RECURSIVE LastWrite(_, _)
LastWrite(ws, level) ==
    IF ws = << >> THEN None
    ELSE IF ws[Len(ws)].level = level THEN Some(ws[Len(ws)].targets)
    ELSE LastWrite(SubSeq(ws, 1, Len(ws) - 1), level)

\* C6: get_targets(L) is exactly the targets of the last input_targets(L, .),
\* whatever was written to L before, and None for a level never written.
C6_InputTargetsReplaces ==
    \A level \in Levels : get_targets(tslot, level) = LastWrite(twrites, level)

\* Two writes A then B to one level, A holding something B does not, and the
\* other level never written.
C6_Witness ==
    /\ Len(twrites) = 2
    /\ twrites[1].level = twrites[2].level
    /\ twrites[1].targets \ twrites[2].targets # {}
    /\ get_targets(tslot, twrites[2].level) = Some(twrites[2].targets)
    /\ \E level \in Levels : get_targets(tslot, level) = None

----------------------------------------------------------------------------
\* Properties of Trader (under Spec).

\* The cached set of a level, None counting as empty.
Cached(m, level) == IF level \in DOMAIN m THEN m[level] ELSE {}

\* The ids all the levels in Ls have cached.
InAllLevels(m, Ls) == {id \in Ids : \A level \in Ls : id \in Cached(m, level)}

\* C2: what handle_targets_slot passes on is the intersection of the cached
\* sets of all the levels of the selectors.  The code starts over from the next
\* level's set whenever the running result is empty.
C2_ConsensusIsIntersection ==
    pc = "send" => snap.selected = Some(InAllLevels(slot, LevelSet(selectors)))

IdsOfType(sigs, type) ==
    {sigs[i].security_id : i \in {k \in 1..Len(sigs) : sigs[k].trading_signal_type = type}}

\* send_trading_signals has built its last signal and every listener has it.
SendComplete ==
    pc = "send" /\ cur.sig = None /\ snap.toOpen = {} /\ snap.toClose = {}

\* The consensus of the tick as a set.
ConsensusSet == IF snap.selected = None THEN {} ELSE snap.selected[1]

\* C3: with S the consensus and H the holdings of the snapshot read at the
\* start of send_trading_signals, when the dispatch of a tick is complete the
\* OpenLong signals are those of S \ H, the CloseLong signals those of H \ S
\* (all of H when S is empty), and at no moment of a tick has an instrument
\* both an OpenLong and a CloseLong signal.
C3_SignalsPartition ==
    /\ IdsOfType(emitted, OpenLong) \cap IdsOfType(emitted, CloseLong) = {}
    /\ SendComplete =>
          /\ IdsOfType(emitted, OpenLong) = ConsensusSet \ snap.holdings
          /\ IdsOfType(emitted, CloseLong) =
                IF ConsensusSet = {} THEN snap.holdings
                ELSE snap.holdings \ ConsensusSet
          /\ Len(emitted) = Cardinality(IdsOfType(emitted, OpenLong))
                            + Cardinality(IdsOfType(emitted, CloseLong))

\* A complete dispatch with an instrument to open, a held instrument to close
\* and a held instrument of the consensus that gets no signal.
C3_Witness ==
    /\ SendComplete
    /\ ConsensusSet \ snap.holdings # {}
    /\ snap.holdings \ ConsensusSet # {}
    /\ IdsOfType(emitted, OpenLong) # {}
    /\ IdsOfType(emitted, CloseLong) # {}

\* The signals of timestamp t that some listener has received.
DeliveredAt(t) ==
    {i \in 1..Len(delivered) : delivered[i].signal.the_timestamp = t}

\* C4 as stated: whenever something raises during tick t, no signal of
\* timestamp t has been delivered.
C4_NoSignalOfFailedTick ==
    err # None => DeliveredAt(err[1].ts) = {}

\* C4 as amended: when the account raises in on_trading_open or in the snapshot
\* read at the start of send_trading_signals, that is before the first signal
\* of the tick is dispatched, no signal of timestamp t has been delivered.
C4_NoSignalWhenFailedBeforeDispatch ==
    (err # None /\ err[1].at \in {"open_hook", "consensus"}) =>
        DeliveredAt(err[1].ts) = {}

\* The snapshot read fails in a tick that would have closed a held instrument.
C4_Witness ==
    /\ pc = "aborted"
    /\ err # None /\ err[1].at = "consensus" /\ err[1].who = Account
    /\ positions # {}
    /\ listeners # << >>
    /\ delivered = << >>

\* C5: once a selector, the account or a listener has raised, the run has
\* stopped for good: no later tick, no further signal, no further slot write.
C5_ErrorStopsTheRun ==
    /\ [](err # None => pc = "aborted")
    /\ [][err # None =>
            /\ pc' = "aborted"
            /\ timestamp' = timestamp
            /\ emitted' = emitted
            /\ delivered' = delivered
            /\ slot' = slot
            /\ handled' = handled]_vars

\* A selector raises in get_targets in a tick that is not the last, after a
\* signal of the tick was delivered.
C5_Witness ==
    /\ pc = "aborted"
    /\ err # None /\ err[1].who = "selector" /\ err[1].at = "refresh"
    /\ timestamp < MaxTicks
    /\ delivered # << >>


\* The level the refresh loop is at.
RefreshingLevel == trading_level_asc(selectors)[lvl]

\* C7: the slot entry of a level changes only in the round of the refresh loop
\* that is at this level, and only when is_in_finished_timestamps holds for
\* the tick's timestamp and this level; that step changes no other entry.
C7_SlotChangesOnlyOnFinishedBoundary ==
    [][\A level \in Levels :
          get_targets(slot', level) # get_targets(slot, level) =>
              /\ pc = "refresh"
              /\ lvl <= Len(trading_level_asc(selectors))
              /\ level = RefreshingLevel
              /\ timestamp' = timestamp
              /\ level \in DOMAIN cal'.finished
              /\ cal'.finished[level]]_vars

\* The refresh loop has passed a level whose boundary is not finished at this
\* timestamp and whose entry, written in an earlier tick, is still there.
C7_Witness ==
    /\ pc = "refresh"
    /\ \E i \in 1..Len(trading_level_asc(selectors)) :
          LET level == trading_level_asc(selectors)[i]
          IN  /\ i < lvl
              /\ level \in DOMAIN cal.finished
              /\ ~cal.finished[level]
              /\ get_targets(slot, level) # None
              /\ get_targets(slot, level) # Some({})

\* The constructor's arguments the claim calls fatal.
Rejected(c) == ~c.start \/ ~c.end \/ (c.real_time /\ c.end_past)

\* C8: a Trader(...) call without start or end timestamp, or with real_time
\* and an end timestamp before now, fails in the constructor: nothing is
\* registered, no selector exists, no tick runs and no signal is built, then
\* or later.
C8_BadConfigFailsAtConstruction ==
    /\ [](pc = "ctor_failed" =>
            /\ selectors = << >> /\ listeners = << >>
            /\ timestamp = 0 /\ emitted = << >> /\ delivered = << >>
            /\ slot = EmptySlot)
    /\ [][(pc = "new" /\ args # None /\ Rejected(args[1])) => pc' = "ctor_failed"]_vars
    /\ [][pc = "ctor_failed" => pc' = "ctor_failed"]_vars

\* The constructor has failed on real_time with an end timestamp in the past.
C8_Witness ==
    /\ pc = "ctor_failed"
    /\ args # None
    /\ args[1].start /\ args[1].end /\ args[1].real_time /\ args[1].end_past

\* The k-th on_trading_signal call of a tick with n listeners is for listener
\* ((k-1) mod n) + 1 and signal ((k-1) div n) + 1.
InDispatchOrder(k) ==
    LET n == Len(listeners)
    IN  /\ ((k - 1) \div n) + 1 <= Len(emitted)
        /\ delivered[k] = [listener |-> listeners[((k - 1) % n) + 1],
                           signal |-> emitted[((k - 1) \div n) + 1]]

----------------------------------------------------------------------------
\* Properties of the order money (under SpecSend).

\* The OpenLong signals built so far in the tick.
OpenSignals ==
    {emitted[i] : i \in {k \in 1..Len(emitted) : emitted[k].trading_signal_type = OpenLong}}

\* n times the float f is at most c, in exact arithmetic.
TimesAtMost(n, f, c) ==
    IF f.e >= 0 THEN n * f.m * Pow2(f.e) <= c ELSE n * f.m <= c * Pow2(0 - f.e)

\* n times the float f differs from c by at most 3 * 2^-Precision * c.
TimesNear(n, f, c) ==
    LET scale == Pow2(Precision)
        num == IF f.e >= 0 THEN n * f.m * Pow2(f.e) ELSE n * f.m
        den == IF f.e >= 0 THEN 1 ELSE Pow2(0 - f.e)
    IN  /\ (num - c * den) * scale <= 3 * c * den
        /\ (c * den - num) * scale <= 3 * c * den

\* C11 as stated: with C the cash of the snapshot and k = |longed|, every
\* OpenLong signal of the tick carries the quotient C / k, so that the k
\* signals together ask for at most C.
C11_OrderMoneyIsCashOverK ==
    pc = "send" =>
        \A sig \in OpenSignals :
            LET k == Cardinality(snap.longed)
            IN  /\ sig.order_money = Some(FloatDiv(ToFloat(snap.cash), ToFloat(k)))
                /\ TimesAtMost(k, sig.order_money[1], snap.cash)

\* C11 as amended: every OpenLong signal of the tick carries the same
\* order_money, the float product C * (1.0 / k) of the snapshot's cash and the
\* rounded reciprocal of k = |longed|; k times it is C up to the two roundings,
\* which may fall above C.
C11_OrderMoneyIsCashTimesShare ==
    pc = "send" =>
        \A sig \in OpenSignals :
            LET k == Cardinality(snap.longed)
            IN  /\ sig.order_money =
                      Some(FloatMul(ToFloat(snap.cash), FloatDiv(ToFloat(1), ToFloat(k))))
                /\ TimesNear(k, sig.order_money[1], snap.cash)

\* Three instruments were opened with cash 10: each signal carries a product
\* that is not the quotient.
C11_Witness ==
    /\ SendComplete
    /\ Cardinality(snap.longed) = 3
    /\ snap.cash = 10
    /\ Cardinality(IdsOfType(emitted, OpenLong)) = 3
    /\ \A sig \in OpenSignals :
          sig.order_money # Some(FloatDiv(ToFloat(10), ToFloat(3)))

----------------------------------------------------------------------------
\* Properties of the loop of run (under SpecRun).

\* C12: over a finite sequence of timestamps and with collaborators that do not
\* raise, run terminates; the timestamps are taken one at a time in ascending
\* order, each after the one before it was handled; on_finish is reached once,
\* only from the head of the loop with every timestamp taken handled, and
\* nothing follows it.
C12_RunTerminatesAfterEveryTick ==
    /\ (pc = "loop") ~> (pc = "finished" \/ err # None)
    /\ [][(timestamp' # timestamp \/ (pc = "loop" /\ pc' = "open_hook")) =>
              /\ pc = "loop" /\ handled = timestamp
              /\ timestamp' = timestamp + 1]_vars
    /\ [][(pc' = "finished" /\ pc # "finished") =>
              pc = "loop" /\ handled = timestamp /\ err = None]_vars
    /\ [][pc = "finished" => pc' = "finished"]_vars

C12_Witness ==
    pc = "finished" /\ timestamp = MaxTicks /\ handled = MaxTicks /\ err = None

----------------------------------------------------------------------------
\* Properties of the refresh loop of run (under Spec).

\* The levels the refresh loop has dealt with so far in this tick.
RefreshedLevels ==
    {trading_level_asc(selectors)[i] :
        i \in {j \in 1..Len(trading_level_asc(selectors)) : j < lvl}}

\* C13: in the refresh loop of a tick, the levels are taken in ascending order,
\* a decision is made for exactly those of them that are finished at the
\* timestamp, and the slot entry of each is the id set of that decision, empty
\* when the decision has no row, whatever the entry held before.
C13_SlotHoldsTheDecisionOfTheTick ==
    pc = "refresh" =>
        /\ \A i \in 1..(Len(trading_level_asc(selectors)) - 1) :
              trading_level_asc(selectors)[i] < trading_level_asc(selectors)[i + 1]
        /\ DOMAIN decided = {l \in RefreshedLevels : cal.finished[l]}
        /\ \A l \in DOMAIN decided :
              l \in DOMAIN slot /\ slot[l] = decided[l]

\* The whole refresh loop of the second tick is done, a level got an empty
\* decision and holds the empty set, and an OpenLong of this tick shows that
\* its entry was not empty before.
C13_Witness ==
    /\ pc = "refresh"
    /\ lvl > Len(trading_level_asc(selectors))
    /\ \E l \in DOMAIN decided : decided[l] = {} /\ slot[l] = {}
    /\ \E i \in 1..Len(emitted) : emitted[i].trading_signal_type = OpenLong

----------------------------------------------------------------------------
\* Properties of the order of the steps of a tick (under Spec).

HookDone(name) == \E i \in 1..Len(hooks) : hooks[i] = name

\* One step of a tick keeps the order of the loop body.
TickOrder ==
    /\ (hooks' # hooks /\ hooks' # << >>) =>
          IF hooks'[Len(hooks')] = "on_trading_open"
          THEN /\ pc = "open_hook" /\ hooks = << >>
               /\ emitted = << >> /\ delivered = << >> /\ decided = EmptySlot
          ELSE /\ hooks'[Len(hooks')] = "on_trading_close"
               /\ ~HookDone("on_trading_close")
               /\ pc = "refresh" /\ lvl > Len(trading_level_asc(selectors))
               /\ cur.sig = None
    /\ ((emitted' # emitted /\ emitted' # << >>)
          \/ (delivered' # delivered /\ delivered' # << >>)) =>
          /\ pc = "send" /\ timestamp' = timestamp
          /\ decided = EmptySlot /\ lvl = 0
          /\ ~HookDone("on_trading_close")
          /\ HookDone("on_trading_open") <=> (config.day \/ cal.open = Some(TRUE))
    /\ (slot' # slot \/ (decided' # decided /\ decided' # EmptySlot)) =>
          /\ pc = "refresh" /\ timestamp' = timestamp
          /\ cur.sig = None /\ snap = NoSnap
          /\ ~HookDone("on_trading_close")
    /\ (pc' = "tick_done" /\ pc # "tick_done") =>
          /\ HookDone("on_trading_open")' <=> (config.day \/ cal'.open = Some(TRUE))
          /\ HookDone("on_trading_close")' <=> (config.day \/ cal'.close = Some(TRUE))

\* C14: in a tick on_trading_open, when called, comes before every signal of
\* the tick, every signal and every delivery before every make_decision and
\* slot write, and on_trading_close, when called, after the last of these.  A
\* LEVEL_1DAY trader calls both hooks in every tick; any other calls
\* on_trading_open exactly when is_open_time holds at the timestamp and
\* on_trading_close exactly when is_close_time does.
C14_StepsOfATickInOrder == [][TickOrder]_vars

\* A tick of a trader of another level than LEVEL_1DAY that opened the session,
\* sent a signal, made a decision and did not close the session.
C14_Witness ==
    /\ pc = "tick_done"
    /\ ~config.day
    /\ hooks = <<"on_trading_open">>
    /\ cal.open = Some(TRUE) /\ cal.close = Some(FALSE)
    /\ emitted # << >>
    /\ decided # EmptySlot

----------------------------------------------------------------------------
\* Properties of the pacing block of run (under Spec).

\* The float f is exactly n / 2.
IsHalfOf(f, n) ==
    IF f.e >= 0 THEN 2 * f.m * Pow2(f.e) = n
    ELSE 2 * f.m = n * Pow2(0 - f.e)

\* What the pacing block does when a timestamp is taken.
PacingGated ==
    LET gate == config.real_time /\ handled # 0
        p == pacing'
    IN  /\ p.waiting # None <=> gate
        /\ IF gate /\ p.waiting[1] > PacingThreshold
           THEN /\ IsHalfOf(p.slept, p.waiting[1])
                /\ DOMAIN cal'.finished = LevelSet(selectors)
                /\ p.moved = {i \in 1..Len(selectors) : cal'.finished[selectors[i]]}
           ELSE /\ p.slept = FloatZero
                /\ p.moved = {}
                /\ cal'.finished = EmptySlot

\* C15: the loop sleeps and calls move_on only at the head of a tick, and only
\* when real_time is set, a tick was handled before and the waiting time computed
\* is above 10 seconds; it then sleeps half the waiting time, once, and calls
\* move_on for exactly the selectors whose level is finished at the timestamp.
\* Without real_time, and in the first tick, no waiting time is computed and
\* the loop neither sleeps nor calls move_on.
C15_PacingOnlyInRealTimeAfterATick ==
    [][/\ timestamp' # timestamp => PacingGated
       /\ pacing' # pacing => (timestamp' # timestamp \/ pacing' = NoPacing)]_vars

\* A real-time trader slept 5.5 seconds of a wait of 11 before its second tick
\* and moved one of its two selectors on.
C15_Witness ==
    /\ config.real_time /\ timestamp = 2 /\ pc = "open_hook"
    /\ pacing.waiting = Some(11)
    /\ pacing.slept = [m |-> 11 * Pow2(Precision - 4), e |-> 0 - (Precision - 3)]
    /\ Cardinality(pacing.moved) = 1

----------------------------------------------------------------------------
\* A tick as a function of what it reads (under Spec).

SignalSet(sigs) == {sigs[i] : i \in 1..Len(sigs)}

\* The signals of a tick, from the slot `m` the tick starts with, the levels
\* of the selectors, the timestamp and the holdings and cash of the snapshot.
TickSignals(m, sels, ts, holdings, cash) ==
    LET sel == Consensus(sels, m)
        S == IF sel = None THEN {} ELSE sel[1]
        k == Cardinality(S \ holdings)
    IN  {[security_id |-> id, the_timestamp |-> ts,
          trading_signal_type |-> OpenLong,
          order_money |-> Some(order_money(cash, k)), position_pct |-> None] :
            id \in S \ holdings}
        \cup
        {[security_id |-> id, the_timestamp |-> ts,
          trading_signal_type |-> CloseLong,
          order_money |-> None, position_pct |-> Some(1)] :
            id \in holdings \ S}

\* The slot after the refresh round of `level`, from the slot before it, the
\* calendar's answer and the id set of the decision.
TickSlot(m, level, fin, ids) ==
    IF fin THEN [l \in (DOMAIN m) \cup {level} |-> IF l = level THEN ids ELSE m[l]]
    ELSE m

TickIsFunction ==
    /\ (pc = "send" /\ pc' = "refresh") =>
          /\ SignalSet(emitted) =
                TickSignals(slot, selectors, timestamp, snap.holdings, snap.cash)
          /\ Len(emitted) = Cardinality(SignalSet(emitted))
    /\ (pc = "refresh" /\ lvl' = lvl + 1) =>
          LET level == trading_level_asc(selectors)[lvl]
          IN  slot' = TickSlot(slot, level, cal'.finished[level],
                               IF level \in DOMAIN decided' THEN decided'[level]
                               ELSE {})
    /\ slot' # slot => (pc = "refresh" /\ lvl' = lvl + 1)
    /\ handled' # handled => (pc = "refresh" /\ handled' = timestamp)
    /\ pc' = "loop" =>
          /\ cal' = NoCal /\ pacing' = NoPacing /\ snap' = NoSnap /\ cur' = NoCur
          /\ emitted' = << >> /\ delivered' = << >> /\ hooks' = << >>
          /\ lvl' = 0 /\ decided' = EmptySlot

\* C16: a tick is a function of what it reads.  The signals of a tick are
\* determined, as a set, by the slot the tick starts with, the timestamp and
\* the holdings and cash of the account snapshot; each round of the refresh
\* loop leaves a slot determined by the slot before it, the calendar's answer
\* and the decision; the tick ends with handled_timestamp = timestamp; and at
\* the head of the loop nothing of the loop body is left but handled_timestamp
\* and the slot.  Two ticks that read the same therefore end the same.
C16_TickIsAFunctionOfItsReads == [][TickIsFunction]_vars

\* The second tick has sent an OpenLong and a CloseLong signal and replaced a
\* non-empty slot entry by another.
C16_Witness ==
    /\ pc = "tick_done" /\ timestamp = 2
    /\ IdsOfType(emitted, OpenLong) # {} /\ IdsOfType(emitted, CloseLong) # {}
    /\ \E l \in DOMAIN decided : decided[l] # {} /\ slot[l] = decided[l]

----------------------------------------------------------------------------
\* Signals and the decisions they come from (under Spec).

\* A step that builds a signal.
SignalBuilt == emitted' # emitted /\ emitted' # << >>

SignalsLag ==
    /\ SignalBuilt =>
          /\ pc = "send" /\ slot' = slot
          /\ decided = EmptySlot
          /\ snap.selected = Consensus(selectors, slot)
          /\ timestamp = 1 =>
                /\ slot = EmptySlot
                /\ emitted'[Len(emitted')].trading_signal_type = CloseLong
    /\ (timestamp = 1 /\ pc = "send" /\ pc' = "refresh") =>
          /\ IdsOfType(emitted, OpenLong) = {}
          /\ IdsOfType(emitted, CloseLong) = snap.holdings
    /\ (decided' # decided /\ decided' # EmptySlot) => emitted' = emitted
    /\ pc # "finished"

\* C17: the signals of a tick come from the slot as the ticks before it left
\* it: when a signal is built no decision of the tick has been made, and once
\* one has been made the tick builds no signal.  In the first tick the slot is
\* empty, so no OpenLong signal is built and every instrument held gets a
\* CloseLong signal.  After on_finish nothing happens, so the decisions of the
\* last tick are never read.
C17_SignalsLagDecisionsByOneTick == [][SignalsLag]_vars

\* The first tick has closed both instruments the account held.
C17_Witness ==
    /\ timestamp = 1 /\ SendComplete
    /\ snap.holdings = Ids
    /\ IdsOfType(emitted, CloseLong) = Ids

----------------------------------------------------------------------------
\* The dispatch of a tick and the account snapshot (under Spec).

\* The signals send_trading_signals has still to build.
PendingSignals ==
    {OpenSignal(id, timestamp, snap.order_money) : id \in snap.toOpen}
    \cup {CloseSignal(id, timestamp) : id \in snap.toClose}

\* C18: in a tick no OpenLong signal is built or delivered after a CloseLong
\* signal, and throughout the dispatch the signals built and still to build
\* are those of the holdings and the cash of the snapshot read before the
\* first of them, whatever the signals delivered so far have done to the
\* account's positions.
C18_OpensBeforeClosesFromOneSnapshot ==
    /\ \A i, j \in 1..Len(emitted) :
          (i < j /\ emitted[i].trading_signal_type = CloseLong)
              => emitted[j].trading_signal_type = CloseLong
    /\ \A i, j \in 1..Len(delivered) :
          (i < j /\ delivered[i].signal.trading_signal_type = CloseLong)
              => delivered[j].signal.trading_signal_type = CloseLong
    /\ pc = "send" =>
          /\ SignalSet(emitted) \cup PendingSignals =
                TickSignals(slot, selectors, timestamp, snap.holdings, snap.cash)
          /\ SignalSet(emitted) \cap PendingSignals = {}

\* The account took the instrument of the OpenLong signal and gave up that of
\* the first CloseLong signal; a second CloseLong signal was built after that.
C18_Witness ==
    /\ pc = "send" /\ Len(emitted) = 3
    /\ emitted[1].trading_signal_type = OpenLong
    /\ emitted[2].trading_signal_type = CloseLong
    /\ emitted[3].trading_signal_type = CloseLong
    /\ emitted[1].security_id \in positions
    /\ emitted[2].security_id \notin positions
    /\ positions # snap.holdings

\* ---------------------------------------------------------------------------
\* C19
\* ---------------------------------------------------------------------------

\* The finest level of the selectors: the first of trading_level_asc.
FinestLevel == trading_level_asc(selectors)[1]

\* The ids of the OpenLong signals emitted so far in this tick.
OpenedIds == {sig.security_id : sig \in OpenSignals}

\* C19: whatever the slot holds, and whatever the (non-empty) list of levels,
\* the consensus handle_targets_slot computes is a subset of the set cached for
\* the finest level, an absent set counting as empty; so every OpenLong signal
\* is for an instrument of the finest level's most recent decision.
C19_ConsensusWithinFinestLevel ==
    /\ selectors # << >> =>
         LET selected == Consensus(selectors, slot)
         IN  (IF selected = None THEN {} ELSE selected[1]) \subseteq Cached(slot, FinestLevel)
    /\ pc = "send" =>
         /\ ConsensusSet \subseteq Cached(slot, FinestLevel)
         /\ OpenedIds \subseteq Cached(slot, FinestLevel)

\* An OpenLong signal is out in a tick where the coarser level's cached set is
\* neither empty nor within the finest level's.
C19_Witness ==
    /\ pc = "send"
    /\ LevelSet(selectors) = Levels
    /\ OpenedIds # {}
    /\ ~(Cached(slot, 2) \subseteq Cached(slot, FinestLevel))
====
